---- MODULE Spec2Model ----
(***************************************************************************)
(* Telemetry ingestion and trajectory reconstruction of EDMT:              *)
(*   edmt/models/drones.py            airPoint, airLine, airSegment         *)
(*   edmt/models/get_flight_routes.py _process_flight_to_polyline,          *)
(*                                    get_flight_routes                     *)
(*   edmt/contrib/utils.py            append_cols, fetch_csv                *)
(*                                                                         *)
(* Spec     : one batch call, airPoint or get_flight_routes, with its pool. *)
(* SpecProc : one call of _process_flight_to_polyline.                      *)
(* SpecGeo  : airLine / airSegment applied to a point GeoDataFrame.         *)
(* SpecFetch: one call of a fetcher (AirdataCSV, fetch_csv) for one track. *)
(* SpecDist : one track with points whose geodesic fails, through airLine  *)
(*            or _process_flight_to_polyline.                               *)
(* SpecFlights: one call of Airdata.get_flights, page by page.             *)
(* LiveSpec, LiveSpecFlights: Spec and SpecFlights with their threads      *)
(*            scheduled.                                                    *)
(***************************************************************************)
EXTENDS Integers, Sequences, FiniteSets, TLC

\* ------------------------------------------------------------------------
\* Bounds of the model
\* ------------------------------------------------------------------------
\* largest number of rows of a point GeoDataFrame
MaxRows == 3
\* largest number of rows of a downloaded CSV
MaxCsvRows == 3
\* largest number of rows of a catalog
MaxCatalog == 3
\* largest max_pages argument of get_flights
MaxPages == 3

\* track ids, in the order sort_values gives them
TrackIds == <<"A", "B">>

\* ------------------------------------------------------------------------
\* Values
\* ------------------------------------------------------------------------
\* a float cell of the time column: a number, or NaN (blank / non-numeric)
Num(n) == [nan |-> FALSE, v |-> n]
NaN == [nan |-> TRUE, v |-> 0]
\* timestamps in units of 1000 ms
TimeVals == {Num(1), Num(2), NaN}
\* coordinates in degrees; 0 is the "no GPS fix" value
Coords == {0, 1}

Abs(n) == IF n < 0 THEN 0 - n ELSE n

\* numpy subtraction t2s - t1s: NaN is absorbing
FSub(a, b) == IF a.nan \/ b.nan THEN NaN ELSE Num(a.v - b.v)

\* the comparison d >= 0 on floats: False for NaN
FGe0(d) == ~d.nan /\ d.v >= 0

\* the comparison a <= b on floats: False when either is NaN
FLeq(a, b) == ~a.nan /\ ~b.nan /\ a.v =< b.v

\* geod.inv(lon1, lat1, lon2, lat2)[2]: the geodesic distance of one edge,
\* a symmetric non-negative function of the two end points that is zero
\* only for equal points (grid metric standing in for the WGS84 inverse)
geod_inv(x1, y1, x2, y2) == Abs(x1 - x2) + Abs(y1 - y2)

\* a latitude outside the domain of the inverse geodesic problem
BadCoord == 9

\* whether geod.inv raises for the edge: an end point with an invalid
\* coordinate ("antipodal, invalid coord" in the source)
geod_fails(x1, y1, x2, y2) == BadCoord \in {y1, y2}

RECURSIVE SeqSum(_)
SeqSum(s) == IF s = <<>> THEN 0 ELSE Head(s) + SeqSum(Tail(s))

IdRank(id) == CHOOSE i \in 1..Len(TrackIds) : TrackIds[i] = id

\* ------------------------------------------------------------------------
\* pandas: sort_values (stable, NaN last) and groupby(sort=False)
\* ------------------------------------------------------------------------
\* ascending order of one time key, na_position='last'
TimeBefore(a, b) == (~a.nan /\ b.nan) \/ (~a.nan /\ ~b.nan /\ a.v < b.v)

\* r strictly before q under the sort keys: by = <<"id", "time">> is
\* sort_values(['id', 'time(millisecond)']), by = <<"time">> is
\* sort_values(by=time_col)
Before(r, q, by) ==
    IF Head(by) = "id"
    THEN \/ IdRank(r.id) < IdRank(q.id)
         \/ (r.id = q.id /\ TimeBefore(r.t, q.t))
    ELSE TimeBefore(r.t, q.t)

RECURSIVE InsertSorted(_, _, _)
\* r goes behind every element that is not strictly after it (stable)
InsertSorted(r, s, by) ==
    IF s = <<>> THEN <<r>>
    ELSE IF Before(r, Head(s), by) THEN <<r>> \o s
    ELSE <<Head(s)>> \o InsertSorted(r, Tail(s), by)

RECURSIVE sort_values(_, _)
sort_values(s, by) ==
    IF s = <<>> THEN <<>>
    ELSE InsertSorted(s[Len(s)], sort_values(SubSeq(s, 1, Len(s) - 1), by), by)

\* groupby('id', sort=False): the ids in order of first appearance
RECURSIVE GroupKeys(_, _)
GroupKeys(s, seen) ==
    IF s = <<>> THEN <<>>
    ELSE IF Head(s).id \in seen THEN GroupKeys(Tail(s), seen)
    ELSE <<Head(s).id>> \o GroupKeys(Tail(s), seen \cup {Head(s).id})

\* the rows of one group, in frame order
Group(s, id) == SelectSeq(s, LAMBDA r : r.id = id)

\* ------------------------------------------------------------------------
\* Tables: [err, columns, rows]; a row is the sequence of its cells, one per
\* column, so that two columns may carry the same label
\* ------------------------------------------------------------------------
SeqRange(s) == {s[i] : i \in 1..Len(s)}

\* the positions of the columns labelled c, left to right
IndicesOf(columns, c) ==
    SelectSeq([i \in 1..Len(columns) |-> i], LAMBDA i : columns[i] = c)

\* the column positions df[labels] selects: every label selects all the
\* columns that carry it, so a duplicated label is selected once per duplicate
RECURSIVE GetItemIdx(_, _)
GetItemIdx(columns, labels) ==
    IF labels = <<>> THEN <<>>
    ELSE IndicesOf(columns, Head(labels)) \o GetItemIdx(columns, Tail(labels))

\* df[labels]
getitem(df, labels) ==
    IF \E i \in 1..Len(labels) : labels[i] \notin SeqRange(df.columns)
    THEN [err |-> "KeyError", columns |-> <<>>, rows |-> <<>>]
    ELSE LET idx == GetItemIdx(df.columns, labels)
         IN  [err |-> "none",
              columns |-> [k \in 1..Len(idx) |-> df.columns[idx[k]]],
              rows |-> [j \in 1..Len(df.rows) |->
                          [k \in 1..Len(idx) |-> df.rows[j][idx[k]]]]]

\* edmt/contrib/utils.py: append_cols(df, cols)
append_cols(df, cols) ==
    LET remaining_cols == SelectSeq(df.columns, LAMBDA c : c \notin SeqRange(cols))
    IN  getitem(df, remaining_cols \o cols)

\* the vectorised geod.inv(lons1, lats1, lons2, lats2) of a builder raises:
\* a group of at least 2 rows has an edge for which geod.inv fails
geod_raises(sorted) ==
    \E id \in SeqRange(GroupKeys(sorted, {})) :
        LET group == Group(sorted, id)
        IN  \E i \in 1..(Len(group) - 1) :
                geod_fails(group[i].x, group[i].y, group[i + 1].x, group[i + 1].y)

\* the exception of geod.inv leaves the builder
GeodError == [err |-> "GeodError", columns |-> <<>>, rows |-> <<>>]

\* gpd.GeoDataFrame(geometry=[], crs=...)
EmptyGeoDataFrame == [err |-> "none", columns |-> <<"geometry">>, rows |-> <<>>]

\* the cells of the column labelled c in one row, left to right
Cells(df, row, c) ==
    LET idx == IndicesOf(df.columns, c) IN [k \in 1..Len(idx) |-> row[idx[k]]]

\* the cell of a column whose label occurs once
Cell(df, row, c) == row[CHOOSE i \in 1..Len(df.columns) : df.columns[i] = c]

\* ------------------------------------------------------------------------
\* The point GeoDataFrame handed to airLine / airSegment
\*   row = [id, x, y, t, status, checktime]; x, y are geometry.x, geometry.y
\*   'status' is a passthrough column; 'checktime' is present iff hasCk
\* ------------------------------------------------------------------------
PointColumns(hasCk) ==
    <<"id", "time(millisecond)", "status">>
        \o (IF hasCk THEN <<"checktime">> ELSE <<>>) \o <<"geometry">>

\* group.drop(columns=[...]): the labels left
drop(columns, dropped) == SelectSeq(columns, LAMBDA c : c \notin dropped)

\* the cell of point row r in column c
PointCell(r, c) ==
    CASE c = "id" -> r.id
      [] c = "status" -> r.status
      [] c = "checktime" -> r.checktime
      [] c = "time(millisecond)" -> r.t
      [] c = "_x" -> r.x
      [] c = "_y" -> r.y
      [] OTHER -> <<r.x, r.y>>

\* ~((gdf.geometry.x == 0) & (gdf.geometry.y == 0))
mask(r) == ~((r.x = 0) /\ (r.y = 0))

\* ------------------------------------------------------------------------
\* edmt/models/drones.py: airSegment
\* ------------------------------------------------------------------------
\* the metadata rows taken from the end points: iloc[1:] for iloc[:-1]
base_attrs_end(group) == SubSeq(group, 2, Len(group))

\* base_attrs = group.drop(columns=[...]).iloc[:-1]: the rows the metadata
\* of the segments is read from
base_attrs(group) == SubSeq(group, 1, Len(group) - 1)

SegmentColumns ==
    <<"id", "segment_start_time", "segment_end_time", "segment_duration_ms",
      "segment_distance_m", "geometry">>

\* the rows of combined = pd.concat([seg_df, base_attrs], axis=1) of one group
combined(flight_id, group, attrCols) ==
    LET starts == SubSeq(group, 1, Len(group) - 1)
        ends == SubSeq(group, 2, Len(group))
        attrs == base_attrs(group)
    IN  [i \in 1..(Len(group) - 1) |->
           << flight_id,
              starts[i].t,
              ends[i].t,
              FSub(ends[i].t, starts[i].t),
              geod_inv(starts[i].x, starts[i].y, ends[i].x, ends[i].y),
              << <<starts[i].x, starts[i].y>>, <<ends[i].x, ends[i].y>> >> >>
           \o [k \in 1..Len(attrCols) |-> PointCell(attrs[i], attrCols[k])]]

RECURSIVE all_segments(_, _, _)
\* the concatenation of the groups' segment rows; groups with n < 2 skipped
all_segments(keys, sorted, attrCols) ==
    IF keys = <<>> THEN <<>>
    ELSE LET group == Group(sorted, Head(keys))
         IN  (IF Len(group) < 2 THEN <<>>
              ELSE combined(Head(keys), group, attrCols))
             \o all_segments(Tail(keys), sorted, attrCols)

SegmentAppendCols ==
    <<"checktime", "segment_start_time", "segment_end_time",
      "segment_duration_ms", "segment_distance_m", "geometry">>

\* the frame airSegment builds before the final append_cols
segment_gdf(gdf, hasCk) ==
    LET masked == SelectSeq(gdf, mask)
        sorted == sort_values(masked, <<"id", "time">>)
        attrCols == drop(PointColumns(hasCk) \o <<"_x", "_y">>,
                         {"geometry", "time(millisecond)", "_x", "_y"})
    IN  [err |-> "none",
         columns |-> SegmentColumns \o attrCols,
         rows |-> all_segments(GroupKeys(sorted, {}), sorted, attrCols)]

airSegment(gdf, hasCk) ==
    IF gdf = <<>> THEN EmptyGeoDataFrame
    ELSE IF SelectSeq(gdf, mask) = <<>> THEN EmptyGeoDataFrame
    ELSE IF geod_raises(sort_values(SelectSeq(gdf, mask), <<"id", "time">>))
    THEN GeodError
    ELSE LET result == segment_gdf(gdf, hasCk)
         IN  IF result.rows = <<>> THEN EmptyGeoDataFrame
             ELSE append_cols(result, SegmentAppendCols)

\* ------------------------------------------------------------------------
\* edmt/models/drones.py: airLine
\* ------------------------------------------------------------------------
RECURSIVE nanmax(_)
\* group[time_col].max(): the largest number, NaN cells skipped
nanmax(ts) ==
    IF ts = <<>> THEN NaN
    ELSE LET m == nanmax(Tail(ts))
         IN  IF Head(ts).nan THEN m
             ELSE IF m.nan \/ m.v < Head(ts).v THEN Head(ts) ELSE m

\* a guard that lets one-point groups through
too_short_off(group) == Len(group) < 1

\* if len(group) < 2: continue
too_short(group) == Len(group) < 2

\* LineString(coords)
LineString(group) == [i \in 1..Len(group) |-> <<group[i].x, group[i].y>>]

\* distances that count the first edge of a track only
dists_first(group) ==
    [i \in 1..(Len(group) - 1) |->
        IF i = 1 THEN geod_inv(group[1].x, group[1].y, group[2].x, group[2].y)
        ELSE 0]

\* geod.inv(lons1, lats1, lons2, lats2)[2]: one distance per consecutive pair
dists(group) ==
    [i \in 1..(Len(group) - 1) |->
        geod_inv(group[i].x, group[i].y, group[i + 1].x, group[i + 1].y)]

\* the result row of one group: metadata of first_row, then the update
line_row(flight_id, group, attrCols) ==
    LET first_row == group[1]
    IN  [k \in 1..Len(attrCols) |->
            IF attrCols[k] = "id" THEN flight_id
            ELSE PointCell(first_row, attrCols[k])]
        \o << LineString(group),
              nanmax([i \in 1..Len(group) |-> group[i].t]),
              SeqSum(dists(group)) >>

RECURSIVE line_results(_, _, _)
line_results(keys, sorted, attrCols) ==
    IF keys = <<>> THEN <<>>
    ELSE LET group == Group(sorted, Head(keys))
         IN  (IF too_short(group) THEN <<>>
              ELSE <<line_row(Head(keys), group, attrCols)>>)
             \o line_results(Tail(keys), sorted, attrCols)

LineAppendCols ==
    <<"checktime", "airline_time", "airline_distance_m", "geometry">>

\* the frame airLine builds before the final append_cols
line_gdf(gdf, hasCk) ==
    LET masked == SelectSeq(gdf, mask)
        sorted == sort_values(masked, <<"id", "time">>)
        attrCols == drop(PointColumns(hasCk) \o <<"_x", "_y">>,
                         {"geometry", "time(millisecond)", "_x", "_y"})
    IN  [err |-> "none",
         columns |-> attrCols \o <<"geometry", "airline_time", "airline_distance_m">>,
         rows |-> line_results(GroupKeys(sorted, {}), sorted, attrCols)]

airLine(gdf, hasCk) ==
    IF SelectSeq(gdf, mask) = <<>> THEN EmptyGeoDataFrame
    ELSE IF geod_raises(sort_values(SelectSeq(gdf, mask), <<"id", "time">>))
    THEN GeodError
    ELSE LET result == line_gdf(gdf, hasCk)
         IN  IF result.rows = <<>> THEN EmptyGeoDataFrame
             ELSE append_cols(result, LineAppendCols)

\* ------------------------------------------------------------------------
\* Python values of a catalog row
\* ------------------------------------------------------------------------
\* a str cell, by what it starts with after strip(); None
Str(scheme) == [type |-> "str", scheme |-> scheme]
PyNone == [type |-> "NoneType", scheme |-> ""]

\* the id _process_flight_to_polyline uses for a row without an id cell
\* ("unknown"); catalog ids are 1, 2, ...
UnknownId == 0

\* row_dict.get(key, default)
dict_get(d, key, default) == IF key \in DOMAIN d THEN d[key] ELSE default

\* the value a call returns, or the exception it raises
ReturnNone == [kind |-> "None"]
Raise(exc) == [kind |-> "raise", exc |-> exc]
ReturnValue(v) == [kind |-> "value", value |-> v]

\* ------------------------------------------------------------------------
\* edmt/models/get_flight_routes.py: _process_flight_to_polyline
\*   row  = [kind, cells]: kind "dict", "Series", or "other" (an object with
\*          neither to_dict nor get, e.g. a tuple); cells maps labels to values
\*   a    = the bound parameters [url_col, id_col, lon_col, lat_col, time_col,
\*          logger]; logger is "None" or "Logger"
\*   bound: whether the name AirdataCSV resolves in the module's globals (the
\*          module neither defines nor imports it; the tests patch it in)
\*   csv  = what AirdataCSV returned: PyNone or a DataFrame [type, columns,
\*          rows], a row mapping each column label to a float cell
\* ------------------------------------------------------------------------
\* the parameters when only row is passed
DefaultArgs ==
    [url_col |-> "csvLink", id_col |-> "id", lon_col |-> "longitude",
     lat_col |-> "latitude", time_col |-> "time(millisecond)",
     logger |-> "None"]

\* the except handler: logger.debug(f"... {row.get('id', 'N/A')}: {e}"),
\* return None
except_handler(row, a) ==
    IF a.logger = "None" THEN Raise("AttributeError")
    ELSE IF row.kind = "other" THEN Raise("AttributeError")
    ELSE ReturnNone

\* logger.<level>(...) inside the try block, followed by return None
log_return_None(row, a) ==
    IF a.logger = "None" THEN except_handler(row, a) ELSE ReturnNone

\* a validation that accepts every URL cell
url_unchecked(url) == FALSE

\* not isinstance(url, str) or not url.strip().startswith(("http://", "https://"))
invalid_url(url) == url.type # "str" \/ url.scheme \notin {"http://", "https://"}

\* (csv_df[lon_col] != 0) & (csv_df[lat_col] != 0)
valid(r, a) == ~(~r[a.lon_col].nan /\ r[a.lon_col].v = 0)
                 /\ ~(~r[a.lat_col].nan /\ r[a.lat_col].v = 0)

\* pts.dropna(subset=[time_col]).sort_values(by=time_col) after
\* pd.to_numeric(errors="coerce"): cells that are not numbers are NaN
dropna_sort(pts, a) ==
    LET keyed == [i \in 1..Len(pts) |-> [t |-> pts[i][a.time_col], r |-> pts[i]]]
        kept == SelectSeq(keyed, LAMBDA k : ~k.t.nan)
        sorted == sort_values(kept, <<"time">>)
    IN  [i \in 1..Len(sorted) |-> sorted[i].r]

RECURSIVE total_dist(_, _)
\* the loop over range(len(coords) - 1): total_dist += abs(dist), an edge
\* for which geod.inv raises skipped (except Exception: continue)
total_dist(coords, i) ==
    IF i >= Len(coords) THEN 0
    ELSE (IF geod_fails(coords[i][1], coords[i][2], coords[i + 1][1], coords[i + 1][2])
          THEN 0
          ELSE Abs(geod_inv(coords[i][1], coords[i][2],
                            coords[i + 1][1], coords[i + 1][2])))
            + total_dist(coords, i + 1)

\* whether the call gets as far as calling AirdataCSV with a resolvable name
reaches_download(row, a, bound) ==
    /\ row.kind # "other"
    /\ ~invalid_url(dict_get(row.cells, a.url_col, PyNone))
    /\ bound

_process_flight_to_polyline(row, a, bound, csv) ==
    IF row.kind = "other" THEN log_return_None(row, a)
    ELSE
    LET row_dict == row.cells
        url == dict_get(row_dict, a.url_col, PyNone)
        flight_id == dict_get(row_dict, a.id_col, UnknownId)
    IN
    IF invalid_url(url) THEN log_return_None(row, a)
    ELSE IF ~bound THEN except_handler(row, a)
    ELSE IF csv.type = "NoneType" THEN log_return_None(row, a)
    ELSE IF ~({a.lon_col, a.lat_col, a.time_col} \subseteq csv.columns)
         THEN log_return_None(row, a)
    ELSE
    LET pts0 == SelectSeq(csv.rows, LAMBDA r : valid(r, a))
    IN
    IF Len(pts0) < 2 THEN log_return_None(row, a)
    ELSE
    LET pts == dropna_sort(pts0, a)
    IN
    IF Len(pts) < 2 THEN log_return_None(row, a)
    ELSE
    LET coords == [i \in 1..Len(pts) |-> <<pts[i][a.lon_col].v, pts[i][a.lat_col].v>>]
        meta == [k \in (DOMAIN row_dict \ {a.url_col}) \cup {a.id_col} |->
                    IF k = a.id_col THEN flight_id ELSE row_dict[k]]
    IN  ReturnValue([meta |-> meta,
                     geometry |-> coords,
                     flight_distance_m |-> total_dist(coords, 1),
                     flight_time_max_ms |->
                         nanmax([i \in 1..Len(pts) |-> pts[i][a.time_col]])])

DataFrame(columns, rows) == [type |-> "DataFrame", columns |-> columns, rows |-> rows]

\* ------------------------------------------------------------------------
\* edmt/base/base.py: AirdataCSV (imported by drones.py; its definition is
\* not part of the sources)
\*   response = what the server holds for the row's URL: PyNone when every
\*   download attempt fails, else the parsed CSV
\* ------------------------------------------------------------------------
\* whether AirdataCSV sends a request at all: never for an absent or
\* invalid URL
AirdataCSV_requests(row) == ~invalid_url(dict_get(row.cells, "csvLink", PyNone))

\* the merged record set (the CSV rows with the row's metadata), or None
AirdataCSV(row, response) ==
    IF ~AirdataCSV_requests(row) THEN ReturnNone
    ELSE IF response.type = "NoneType" THEN ReturnNone
    ELSE ReturnValue([meta |-> row.cells, csv |-> response])

\* ------------------------------------------------------------------------
\* The batch calls: edmt/models/drones.py airPoint and
\* edmt/models/get_flight_routes.py get_flight_routes
\*   catalog = [columns, rows]; a row maps the column labels to cells
\*   filter_ids = [given, ids]: None, or a list of ids
\* ------------------------------------------------------------------------
\* rows processed per chunk by airPoint (200 in the source, scaled)
chunk_size == 2
\* threads of the pool (20 in airPoint, 8 by default in get_flight_routes,
\* scaled)
max_workers == 2

NoFilter == [given |-> FALSE, ids |-> {}]
Filter(ids) == [given |-> TRUE, ids |-> ids]

\* df[df["id"].isin(filter_ids)]: the positions of the rows kept
isin(catalog, ids) ==
    SelectSeq([i \in 1..Len(catalog.rows) |-> i],
              LAMBDA i : catalog.rows[i]["id"] \in ids)

AllRows(catalog) == [i \in 1..Len(catalog.rows) |-> i]

\* a validation that treats a catalog without its required columns as empty
get_flight_routes_select_lenient(catalog, filter_ids) ==
    IF ~({"id", "csvLink"} \subseteq catalog.columns) THEN [kind |-> "empty"]
    ELSE LET df == IF filter_ids.given /\ filter_ids.ids # {}
                   THEN isin(catalog, filter_ids.ids)
                   ELSE AllRows(catalog)
         IN  IF df = <<>> THEN [kind |-> "empty"]
             ELSE [kind |-> "rows", df |-> df]

\* get_flight_routes up to the executor: the exception it raises, the empty
\* frame it returns, or the rows (catalog positions) it goes on with
get_flight_routes_select(catalog, filter_ids) ==
    IF ~({"id", "csvLink"} \subseteq catalog.columns)
    THEN [kind |-> "raise", exc |-> "ValueError"]
    ELSE LET df == IF filter_ids.given /\ filter_ids.ids # {}
                   THEN isin(catalog, filter_ids.ids)
                   ELSE AllRows(catalog)
         IN  IF df = <<>> THEN [kind |-> "empty"]
             ELSE [kind |-> "rows", df |-> df]

\* airPoint up to the chunk loop
airPoint_select(catalog, filter_ids) ==
    IF "time" \notin catalog.columns
    THEN [kind |-> "raise", exc |-> "KeyError"]
    ELSE IF filter_ids.given /\ "id" \notin catalog.columns
    THEN [kind |-> "raise", exc |-> "KeyError"]
    ELSE LET df == IF filter_ids.given
                   THEN isin(catalog, filter_ids.ids)
                   ELSE AllRows(catalog)
         IN  IF df = <<>> THEN [kind |-> "empty"]
             ELSE IF "csvLink" \notin catalog.columns
             THEN [kind |-> "raise", exc |-> "ValueError"]
             ELSE [kind |-> "rows", df |-> df]

\* total_rows > chunk_size
use_chunks(df) == Len(df) > chunk_size

\* a chunk that stops one row early
chunk_df_short(df, start_idx, chunked) ==
    IF chunked
    THEN {k \in 1..Len(df) : start_idx < k /\ k < start_idx + chunk_size}
    ELSE 1..Len(df)

\* a chunk that is the whole of df
chunk_df_whole(df, start_idx, chunked) == 1..Len(df)

\* the positions (in df) of the chunk that starts at start_idx (0-based):
\* df.iloc[start_idx:start_idx + chunk_size], or all of df without chunks
chunk_df(df, start_idx, chunked) ==
    IF chunked
    THEN {k \in 1..Len(df) : start_idx < k /\ k =< start_idx + chunk_size}
    ELSE 1..Len(df)

\* executor.submit(_process_flight_to_polyline, row, lon_col, lat_col,
\* time_col): the parameters the three positional arguments bind
submit_args(lon_col, lat_col, time_col) ==
    [DefaultArgs EXCEPT !.url_col = lon_col, !.id_col = lat_col,
                        !.lon_col = time_col]

\* ------------------------------------------------------------------------
\* State
\* ------------------------------------------------------------------------
VARIABLES
    \* SpecGeo: airLine / airSegment on a point frame
    gdf,        \* the point GeoDataFrame, rows in arrival order
    hasCk,      \* whether gdf has a 'checktime' column
    gpc,        \* "build", or the builder that has run: "airLine", "airSegment"
    gout,       \* the builder's result: a table, or err = "KeyError" when it raised
    \* SpecProc: one call of _process_flight_to_polyline
    prow,       \* the row argument [kind, cells]
    pargs,      \* the bound parameters
    pbound,     \* whether the name AirdataCSV resolves in get_flight_routes.py
    pcsv,       \* what AirdataCSV returns: PyNone or the DataFrame being received
    ppc,        \* "start", "download", "done"
    pres,       \* the result: ReturnNone, ReturnValue(..) or Raise(..)
    \* Spec: one batch call (airPoint or get_flight_routes)
    call,       \* [fn, lon_col, lat_col, time_col]
    bound,      \* whether the name AirdataCSV resolves in get_flight_routes.py
    catalog,    \* the metadata frame [columns, rows]
    filter_ids, \* [given, ids]
    bpc,        \* "idle", "submitting", "collecting", "unwinding", "returned", "raised"
    df,         \* the catalog positions left after filtering, in frame order
    start_idx,  \* start (0-based, in df) of the chunk being processed
    futs,       \* per position of df: the future's state and outcome
    completed,  \* the futures of the chunk that are done, in completion order
    finished0,  \* the futures that were done when as_completed was entered
    consumed,   \* the futures whose result() the loop has taken, in that order
    results,    \* results / all_dfs: the collected non-None results
    retval,     \* what the batch call returned or raised
    requested,  \* the df positions for whose URL a download was attempted
    \* SpecFetch: one call of a fetcher (AirdataCSV or fetch_csv)
    fcall,      \* [fn, max_retries, url]
    fpc,        \* "start", "attempt", "backoff", "done"
    attempt,    \* the 0-based number of the download attempt being made
    flog,       \* the outcome of every download attempt made, in order
    sleeps,     \* the backoff sleeps taken, in order, in units of 0.5 s
    fres,       \* the result: ReturnNone, ReturnValue(..) or Raise(..)
    \* SpecFlights: one call of Airdata.get_flights
    gfcall,     \* [authenticated, location, limit, max_pages, hasTime]
    gfpc,       \* "start", "loop", "waiting", "after_loop", "returned", "raised"
    offset,     \* the offset of the next page request
    page,       \* the number of pages appended so far
    all_data,   \* the record count of every page appended, in order
    sent,       \* the offset of every page request issued, in order
    replies,    \* the outcome of every page request that has ended, in order
    gfres       \* the result: ReturnValue(..) or Raise(..)

geoVars == <<gdf, hasCk, gpc, gout>>
procVars == <<prow, pargs, pbound, pcsv, ppc, pres>>
batchVars == <<call, bound, catalog, filter_ids, bpc, df, start_idx, futs,
               completed, finished0, consumed, results, retval, requested>>
fetchVars == <<fcall, fpc, attempt, flog, sleeps, fres>>
flightVars == <<gfcall, gfpc, offset, page, all_data, sent, replies, gfres>>
vars == <<geoVars, procVars, batchVars, fetchVars, flightVars>>

NoTable == [err |-> "unset", columns |-> <<>>, rows |-> <<>>]
NoResult == [kind |-> "unset"]

\* the parts of the state a specification does not use
GeoIdle ==
    /\ gdf = <<>> /\ hasCk = FALSE /\ gpc = "idle" /\ gout = NoTable

ProcIdle ==
    /\ prow = [kind |-> "dict", cells |-> <<>>]
    /\ pargs = DefaultArgs /\ pbound = FALSE
    /\ pcsv = PyNone /\ ppc = "idle" /\ pres = NoResult

BatchIdle ==
    /\ call = [fn |-> "none"] /\ bound = FALSE
    /\ catalog = DataFrame({}, <<>>) /\ filter_ids = NoFilter
    /\ bpc = "off" /\ df = <<>> /\ start_idx = 0 /\ futs = <<>>
    /\ completed = <<>> /\ finished0 = {} /\ consumed = <<>>
    /\ results = <<>> /\ retval = NoResult /\ requested = {}

FetchIdle ==
    /\ fcall = [fn |-> "none"] /\ fpc = "idle" /\ attempt = 0
    /\ flog = <<>> /\ sleeps = <<>> /\ fres = NoResult

FlightsIdle ==
    /\ gfcall = [fn |-> "none"] /\ gfpc = "idle" /\ offset = 0 /\ page = 0
    /\ all_data = <<>> /\ sent = <<>> /\ replies = <<>> /\ gfres = NoResult

\* ------------------------------------------------------------------------
\* SpecGeo: a point frame arrives row by row, then one builder runs on it
\* ------------------------------------------------------------------------
\* (lon, lat) of a point: the (0,0) sentinel, one zero coordinate, no zero
CoordPairs == {<<0, 0>>, <<1, 0>>, <<1, 1>>}

InitGeo ==
    /\ gdf = <<>>
    /\ hasCk \in BOOLEAN
    /\ gpc = "build"
    /\ gout = NoTable
    /\ ProcIdle /\ BatchIdle /\ FetchIdle /\ FlightsIdle

\* one more point row; its passthrough cells carry the arrival position
IngestPoint ==
    /\ gpc = "build"
    /\ Len(gdf) < MaxRows
    /\ \E id \in SeqRange(TrackIds), xy \in CoordPairs, t \in TimeVals :
          gdf' = Append(gdf, [id |-> id, x |-> xy[1], y |-> xy[2], t |-> t,
                              status |-> Len(gdf) + 1,
                              checktime |-> Len(gdf) + 1])
    /\ UNCHANGED <<hasCk, gpc, gout, procVars, batchVars, fetchVars, flightVars>>

CallAirSegment ==
    /\ gpc = "build"
    /\ gout' = airSegment(gdf, hasCk)
    /\ gpc' = "airSegment"
    /\ UNCHANGED <<gdf, hasCk, procVars, batchVars, fetchVars, flightVars>>

CallAirLine ==
    /\ gpc = "build"
    /\ gout' = airLine(gdf, hasCk)
    /\ gpc' = "airLine"
    /\ UNCHANGED <<gdf, hasCk, procVars, batchVars, fetchVars, flightVars>>

NextGeo == IngestPoint \/ CallAirSegment \/ CallAirLine

SpecGeo == InitGeo /\ [][NextGeo]_vars

\* ------------------------------------------------------------------------
\* SpecProc: one call of _process_flight_to_polyline; the CSV arrives while
\* the call waits in AirdataCSV
\* ------------------------------------------------------------------------
UrlCells == {Str("https://"), Str("http://"), Str("ftp://"), PyNone}

CsvLabels == {"longitude", "latitude", "time(millisecond)"}

\* a catalog row with or without a csvLink cell
RowCells == {("id" :> 1) @@ ("pilot" :> Str(""))}
              \cup {("id" :> 1) @@ ("pilot" :> Str("")) @@ ("csvLink" :> u) : u \in UrlCells}

InitProc ==
    /\ prow \in [kind : {"dict", "Series", "other"}, cells : RowCells]
    /\ pargs \in {DefaultArgs,
                  [DefaultArgs EXCEPT !.logger = "Logger"],
                  submit_args("longitude", "latitude", "time(millisecond)")}
    /\ pbound \in BOOLEAN
    /\ pcsv = PyNone
    /\ ppc = "start"
    /\ pres = NoResult
    /\ GeoIdle /\ BatchIdle /\ FetchIdle /\ FlightsIdle

\* the call runs up to AirdataCSV, or to its end when it never gets there
ProcCall ==
    /\ ppc = "start"
    /\ IF reaches_download(prow, pargs, pbound)
       THEN /\ \E cols \in {CsvLabels} \cup {CsvLabels \ {c} : c \in CsvLabels} :
                   pcsv' = DataFrame(cols, <<>>)
            /\ ppc' = "download"
            /\ pres' = pres
       ELSE /\ pres' = _process_flight_to_polyline(prow, pargs, pbound, PyNone)
            /\ ppc' = "done"
            /\ pcsv' = pcsv
    /\ UNCHANGED <<prow, pargs, pbound, geoVars, batchVars, fetchVars, flightVars>>

\* the cells of one CSV row
CsvCell(c, lon, lat, t) ==
    IF c = "longitude" THEN Num(lon) ELSE IF c = "latitude" THEN Num(lat) ELSE t

\* one more row of the CSV
RecvCsvRow ==
    /\ ppc = "download"
    /\ Len(pcsv.rows) < MaxCsvRows
    /\ \E lon \in Coords, lat \in Coords, t \in TimeVals :
          pcsv' = [pcsv EXCEPT !.rows =
                      Append(@, [c \in pcsv.columns |-> CsvCell(c, lon, lat, t)])]
    /\ UNCHANGED <<prow, pargs, pbound, ppc, pres, geoVars, batchVars, fetchVars, flightVars>>

\* every download attempt failed: AirdataCSV returns None
DownloadFails ==
    /\ ppc = "download"
    /\ pcsv.rows = <<>>
    /\ pcsv' = PyNone
    /\ pres' = _process_flight_to_polyline(prow, pargs, pbound, PyNone)
    /\ ppc' = "done"
    /\ UNCHANGED <<prow, pargs, pbound, geoVars, batchVars, fetchVars, flightVars>>

\* AirdataCSV returns the CSV and the call runs to its end
ProcFinish ==
    /\ ppc = "download"
    /\ pres' = _process_flight_to_polyline(prow, pargs, pbound, pcsv)
    /\ ppc' = "done"
    /\ UNCHANGED <<prow, pargs, pbound, pcsv, geoVars, batchVars, fetchVars, flightVars>>

NextProc == ProcCall \/ RecvCsvRow \/ DownloadFails \/ ProcFinish

SpecProc == InitProc /\ [][NextProc]_vars

\* ------------------------------------------------------------------------
\* Spec: one batch call; the pool's workers run concurrently with the
\* calling thread
\* ------------------------------------------------------------------------
\* an id no catalog row has
AbsentId == MaxCatalog + 1

FilterChoices == {NoFilter, Filter({}), Filter({1, 3}), Filter({2, AbsentId})}

CatalogLabels == {"id", "csvLink", "time", "pilot"}

\* csvLink cells that are no HTTP(S) URL: None, another scheme, an empty str
BadUrls == <<PyNone, Str("ftp://"), Str("")>>

\* the cell of catalog row i in column c; row bad has no usable URL
CatalogCell(i, c, bad) ==
    IF c = "id" THEN i
    ELSE IF c = "csvLink"
    THEN (IF i = bad THEN BadUrls[((i - 1) % Len(BadUrls)) + 1] ELSE Str("https://"))
    ELSE Str("")

\* what a server holds for a URL: nothing that can be downloaded, or a CSV
\* with two valid points
GoodCsv ==
    DataFrame(CsvLabels,
              << [c \in CsvLabels |-> CsvCell(c, 1, 1, Num(1))],
                 [c \in CsvLabels |-> CsvCell(c, 1, 1, Num(2))] >>)
Responses == {PyNone, GoodCsv}

Init ==
    /\ call \in {[fn |-> "airPoint", lon_col |-> "longitude",
                  lat_col |-> "latitude", time_col |-> "time(millisecond)"],
                 [fn |-> "get_flight_routes", lon_col |-> "longitude",
                  lat_col |-> "latitude", time_col |-> "time(millisecond)"],
                 [fn |-> "get_flight_routes", lon_col |-> "csvLink",
                  lat_col |-> "id", time_col |-> "longitude"]}
    /\ bound \in BOOLEAN
    /\ call.fn = "airPoint" => bound = FALSE
    /\ \E n \in 0..MaxCatalog, cols \in {CatalogLabels} \cup
                 {CatalogLabels \ {c} : c \in {"id", "csvLink", "time"}} :
          \E bad \in 0..n :
             catalog = DataFrame(cols,
                          [i \in 1..n |-> [c \in cols |-> CatalogCell(i, c, bad)]])
    /\ filter_ids \in FilterChoices
    /\ bpc = "idle"
    /\ df = <<>> /\ start_idx = 0 /\ futs = <<>>
    /\ completed = <<>> /\ finished0 = {} /\ consumed = <<>>
    /\ results = <<>> /\ retval = NoResult /\ requested = {}
    /\ GeoIdle /\ ProcIdle /\ FetchIdle /\ FlightsIdle

chunked == call.fn = "airPoint" /\ use_chunks(df)

\* the positions of df in the chunk being processed
Chunk == chunk_df(df, start_idx, chunked)

Running == {k \in 1..Len(futs) : futs[k].st = "running"}

\* every task is handed the first row of df
SeriesOf_first(k) == [kind |-> "Series", cells |-> catalog.rows[df[1]]]

\* the row iterrows() gives for position k of df
SeriesOf(k) == [kind |-> "Series", cells |-> catalog.rows[df[k]]]

\* the call validates and filters the catalog
BatchCall ==
    /\ bpc = "idle"
    /\ LET sel == IF call.fn = "airPoint"
                  THEN airPoint_select(catalog, filter_ids)
                  ELSE get_flight_routes_select(catalog, filter_ids)
       IN  IF sel.kind = "raise"
           THEN /\ bpc' = "raised" /\ retval' = Raise(sel.exc)
                /\ UNCHANGED <<df, futs, flightVars>>
           ELSE IF sel.kind = "empty"
           THEN /\ bpc' = "returned" /\ retval' = ReturnValue(<<>>)
                /\ UNCHANGED <<df, futs, flightVars>>
           ELSE /\ bpc' = "submitting" /\ retval' = retval
                /\ df' = sel.df
                /\ futs' = [k \in 1..Len(sel.df) |-> [st |-> "none", out |-> NoResult]]
    /\ UNCHANGED <<call, bound, catalog, filter_ids, start_idx, completed,
                   finished0, consumed, results, requested, geoVars, procVars, fetchVars, flightVars>>

\* executor.submit for the next row of the chunk
Submit ==
    /\ bpc = "submitting"
    /\ \E k \in Chunk :
          /\ futs[k].st = "none"
          /\ \A j \in Chunk : j < k => futs[j].st # "none"
          /\ futs' = [futs EXCEPT ![k].st = "queued"]
    /\ UNCHANGED <<call, bound, catalog, filter_ids, bpc, df, start_idx,
                   completed, finished0, consumed, results, retval, requested,
                   geoVars, procVars, fetchVars, flightVars>>

\* every row of the chunk is submitted: the loop over as_completed begins
EnterLoop ==
    /\ bpc = "submitting"
    /\ \A k \in Chunk : futs[k].st # "none"
    /\ bpc' = "collecting"
    /\ finished0' = {k \in Chunk : futs[k].st = "done"}
    /\ UNCHANGED <<call, bound, catalog, filter_ids, df, start_idx, futs,
                   completed, consumed, results, retval, requested,
                   geoVars, procVars, fetchVars, flightVars>>

\* a pool that starts a thread for every task
pool_unbounded(running) == TRUE

\* ThreadPoolExecutor(max_workers=max_workers): a queued task is taken only
\* while fewer than max_workers threads are busy
pool_has_idle_thread(running) == Cardinality(running) < max_workers

\* an idle pool thread takes the oldest queued task
WorkerStart ==
    /\ bpc \in {"submitting", "collecting", "unwinding"}
    /\ pool_has_idle_thread(Running)
    /\ \E k \in 1..Len(futs) :
          /\ futs[k].st = "queued"
          /\ \A j \in 1..Len(futs) : j < k => futs[j].st # "queued"
          /\ futs' = [futs EXCEPT ![k].st = "running"]
    /\ UNCHANGED <<call, bound, catalog, filter_ids, bpc, df, start_idx,
                   completed, finished0, consumed, results, retval, requested,
                   geoVars, procVars, fetchVars, flightVars>>

\* a task runs to its end: AirdataCSV (airPoint) or
\* _process_flight_to_polyline (get_flight_routes) for the row
WorkerFinish ==
    /\ bpc \in {"submitting", "collecting", "unwinding"}
    /\ \E k \in Running, response \in Responses :
          LET row == SeriesOf(k)
              a == submit_args(call.lon_col, call.lat_col, call.time_col)
              out == IF call.fn = "airPoint"
                     THEN AirdataCSV(row, response)
                     ELSE _process_flight_to_polyline(row, a, bound, response)
              req == IF call.fn = "airPoint"
                     THEN AirdataCSV_requests(row)
                     ELSE reaches_download(row, a, bound) /\ AirdataCSV_requests(row)
          IN  /\ futs' = [futs EXCEPT ![k] = [st |-> "done", out |-> out]]
              /\ completed' = Append(completed, k)
              /\ requested' = IF req THEN requested \cup {k} ELSE requested
    /\ UNCHANGED <<call, bound, catalog, filter_ids, bpc, df, start_idx,
                   finished0, consumed, results, retval, geoVars, procVars, fetchVars, flightVars>>

\* an iterator that yields only the futures that complete after it started
NextCompleted_late ==
    LET late == SelectSeq(completed,
                          LAMBDA k : k \in Chunk /\ k \notin finished0
                                       /\ k \notin SeqRange(consumed))
    IN  IF late # <<>> THEN {Head(late)} ELSE {}

\* an iterator that yields the done futures of the chunk in any order
NextCompleted_any ==
    {k \in Chunk : futs[k].st = "done" /\ k \notin SeqRange(consumed)}

\* the futures as_completed may yield next: those that were done when the
\* loop began, in any order, then the others in completion order
NextCompleted ==
    LET early == finished0 \ SeqRange(consumed)
        late == SelectSeq(completed,
                          LAMBDA k : k \in Chunk /\ k \notin finished0
                                       /\ k \notin SeqRange(consumed))
    IN  IF early # {} THEN early
        ELSE IF late # <<>> THEN {Head(late)} ELSE {}

\* a result() that hands an exception of the task over as no result
result_swallows(out) == FALSE

\* future.result() raises the exception the task ended with
result_raises(out) == out.kind = "raise"

\* one turn of the loop: future.result(), appended when not None
Collect ==
    /\ bpc = "collecting"
    /\ \E k \in NextCompleted :
          /\ consumed' = Append(consumed, k)
          /\ IF result_raises(futs[k].out)
             THEN /\ bpc' = "unwinding" /\ retval' = futs[k].out
                  /\ results' = results
             ELSE /\ bpc' = bpc /\ retval' = retval
                  /\ results' = IF futs[k].out.kind = "value"
                                THEN Append(results, df[k]) ELSE results
    /\ UNCHANGED <<call, bound, catalog, filter_ids, df, start_idx, futs,
                   completed, finished0, requested, geoVars, procVars, fetchVars, flightVars>>

\* airPoint: the chunk is collected and another one follows
NextChunk ==
    /\ bpc = "collecting"
    /\ Chunk \subseteq SeqRange(consumed)
    /\ chunked /\ start_idx + chunk_size < Len(df)
    /\ start_idx' = start_idx + chunk_size
    /\ bpc' = "submitting"
    /\ finished0' = {}
    /\ UNCHANGED <<call, bound, catalog, filter_ids, df, futs, completed,
                   consumed, results, retval, requested, geoVars, procVars, fetchVars, flightVars>>

\* the last chunk is collected: the call returns the collected results (the
\* empty frame when there are none)
Return ==
    /\ bpc = "collecting"
    /\ Chunk \subseteq SeqRange(consumed)
    /\ ~(chunked /\ start_idx + chunk_size < Len(df))
    /\ bpc' = "returned"
    /\ retval' = ReturnValue(results)
    /\ UNCHANGED <<call, bound, catalog, filter_ids, df, start_idx, futs,
                   completed, finished0, consumed, results, requested,
                   geoVars, procVars, fetchVars, flightVars>>

\* result() raised: the with block waits for the pool's tasks, then the
\* exception leaves the batch call
Unwind ==
    /\ bpc = "unwinding"
    /\ \A k \in 1..Len(futs) : futs[k].st \in {"none", "done"}
    /\ bpc' = "raised"
    /\ UNCHANGED <<call, bound, catalog, filter_ids, df, start_idx, futs,
                   completed, finished0, consumed, results, retval, requested,
                   geoVars, procVars, fetchVars, flightVars>>

Next ==
    \/ BatchCall \/ Submit \/ EnterLoop \/ WorkerStart \/ WorkerFinish
    \/ Collect \/ NextChunk \/ Return \/ Unwind

Spec == Init /\ [][Next]_vars

\* the steps of the thread that runs the batch call
DrivingThread ==
    \/ BatchCall \/ Submit \/ EnterLoop \/ Collect \/ NextChunk \/ Return
    \/ Unwind

\* Spec with its threads scheduled: the driving thread keeps running, an
\* idle pool thread takes a queued task, and every task that runs terminates
LiveSpec ==
    /\ Spec
    /\ WF_vars(DrivingThread)
    /\ WF_vars(WorkerStart)
    /\ WF_vars(WorkerFinish)

\* ------------------------------------------------------------------------
\* SpecFetch: one call of a fetcher for one track
\*   AirdataCSV(row, max_retries, timeout): edmt/base/base.py, whose
\*     definition is not part of the sources; its retry loop is the one the
\*     specification of the Resource Fetcher describes
\*   fetch_csv(session, row): edmt/contrib/utils.py, one attempt
\* ------------------------------------------------------------------------
\* retries=3 in airPoint, max_retries=3 in _process_flight_to_polyline
retries == 3

\* what one download attempt can end with
AttemptOutcomes == {"network error", "non-2xx status", "malformed payload", "ok"}

RECURSIVE Pow2(_)
Pow2(n) == IF n = 0 THEN 1 ELSE 2 * Pow2(n - 1)

\* a backoff that sleeps the same time after every failed attempt
backoff_flat(a) == 1

\* the sleep after failed attempt a (0-based), 0.5 * 2^a seconds, in units
\* of 0.5 s
backoff(a) == Pow2(a)

\* whether another attempt follows failed attempt a
retries_left(fn, a, max_retries) == fn = "AirdataCSV" /\ a + 1 < max_retries

\* an absent cell stands for a row without a csvLink
AbsentCell == [type |-> "absent", scheme |-> ""]

InitFetch ==
    /\ fcall \in [fn : {"AirdataCSV", "fetch_csv"},
                   max_retries : 1..retries,
                   url : UrlCells \cup {AbsentCell}]
    /\ fpc = "start"
    /\ attempt = 0
    /\ flog = <<>>
    /\ sleeps = <<>>
    /\ fres = NoResult
    /\ GeoIdle /\ ProcIdle /\ BatchIdle /\ FlightsIdle

\* the call up to its first download attempt. AirdataCSV returns None for a
\* URL that is absent or invalid. fetch_csv does not look at the URL: an
\* absent csvLink or a URL that is not a str raises inside the try block,
\* a str that is not an http(s) URL either is refused by the HTTP client or
\* is requested, by the client's version
FetchCall ==
    /\ fpc = "start"
    /\ \E refused \in BOOLEAN :
          LET no_request ==
                IF fcall.fn = "AirdataCSV" THEN invalid_url(fcall.url)
                ELSE fcall.url.type # "str" \/ (invalid_url(fcall.url) /\ refused)
          IN  IF no_request
              THEN fpc' = "done" /\ fres' = ReturnNone
              ELSE fpc' = "attempt" /\ fres' = fres
    /\ UNCHANGED <<fcall, attempt, flog, sleeps, geoVars, procVars, batchVars, flightVars>>

\* a download attempt fails: another attempt after the backoff sleep, or
\* None after the last one
AttemptFails ==
    /\ fpc = "attempt"
    /\ \E e \in AttemptOutcomes \ {"ok"} : flog' = Append(flog, e)
    /\ IF retries_left(fcall.fn, attempt, fcall.max_retries)
       THEN /\ fpc' = "backoff"
            /\ sleeps' = Append(sleeps, backoff(attempt))
            /\ fres' = fres
       ELSE /\ fpc' = "done"
            /\ sleeps' = sleeps
            /\ fres' = ReturnNone
    /\ UNCHANGED <<fcall, attempt, geoVars, procVars, batchVars, flightVars>>

\* the sleep is over: the next attempt
BackoffOver ==
    /\ fpc = "backoff"
    /\ attempt' = attempt + 1
    /\ fpc' = "attempt"
    /\ UNCHANGED <<fcall, flog, sleeps, fres, geoVars, procVars, batchVars, flightVars>>

\* a download attempt succeeds: the parsed CSV with the row's metadata
AttemptSucceeds ==
    /\ fpc = "attempt"
    /\ flog' = Append(flog, "ok")
    /\ fpc' = "done"
    /\ fres' = ReturnValue(GoodCsv)
    /\ UNCHANGED <<fcall, attempt, sleeps, geoVars, procVars, batchVars, flightVars>>

NextFetch == FetchCall \/ AttemptFails \/ BackoffOver \/ AttemptSucceeds

SpecFetch == InitFetch /\ [][NextFetch]_vars

\* ------------------------------------------------------------------------
\* SpecDist: the points of one track arrive, some with a coordinate for
\* which geod.inv fails; then airLine runs on them as a point frame, or
\* _process_flight_to_polyline runs on them as the rows of the track's CSV
\* ------------------------------------------------------------------------
\* (lon, lat) of a point of the track
TrackPoints == {<<1, 1>>, <<2, 1>>, <<1, BadCoord>>}

InitDist ==
    /\ gdf = <<>>
    /\ hasCk = TRUE
    /\ gpc = "build"
    /\ gout = NoTable
    /\ ProcIdle /\ BatchIdle /\ FetchIdle /\ FlightsIdle

\* one more point of the track
IngestTrackPoint ==
    /\ gpc = "build"
    /\ Len(gdf) < MaxRows
    /\ \E xy \in TrackPoints, t \in {Num(1), Num(2)} :
          gdf' = Append(gdf, [id |-> TrackIds[1], x |-> xy[1], y |-> xy[2], t |-> t,
                              status |-> Len(gdf) + 1,
                              checktime |-> Len(gdf) + 1])
    /\ UNCHANGED <<hasCk, gpc, gout, procVars, batchVars, fetchVars, flightVars>>

\* the track as the CSV AirdataCSV returns for it
TrackCsv ==
    DataFrame(CsvLabels,
              [i \in 1..Len(gdf) |->
                  [c \in CsvLabels |-> CsvCell(c, gdf[i].x, gdf[i].y, gdf[i].t)]])

\* _process_flight_to_polyline for the track, with a logger
CallPolyline ==
    /\ gpc = "build"
    /\ pres' = _process_flight_to_polyline(
                  [kind |-> "dict",
                   cells |-> ("id" :> 1) @@ ("csvLink" :> Str("https://"))],
                  [DefaultArgs EXCEPT !.logger = "Logger"], TRUE, TrackCsv)
    /\ gpc' = "polyline"
    /\ UNCHANGED <<gdf, hasCk, gout, prow, pargs, pbound, pcsv, ppc,
                   batchVars, fetchVars, flightVars>>

NextDist == IngestTrackPoint \/ CallAirLine \/ CallPolyline

SpecDist == InitDist /\ [][NextDist]_vars

\* ------------------------------------------------------------------------
\* edmt/models/drones.py: Airdata.get_flights
\*   location: "None", "valid" ([lat, lon]) or "invalid"
\*   hasTime : whether the flight records of the API carry a 'time' field
\*   a page request ends with records ("data"), with no records ("empty"),
\*   with a status other than 200 ("status") or by raising ("exception");
\*   the connection is opened without a timeout, so it may also not end
\* ------------------------------------------------------------------------
\* the limit arguments of the model
Limits == {1, 2}

\* a loop test that admits one page more
more_pages_inclusive(p, max_pages) == p <= max_pages

\* while page < max_pages
more_pages(p, max_pages) == p < max_pages

\* pd.DataFrame()
NoFlights == [time |-> FALSE, rows |-> 0]

InitFlights ==
    /\ gfcall \in [authenticated : BOOLEAN,
                    location : {"None", "valid", "invalid"},
                    limit : Limits,
                    max_pages : 0..MaxPages,
                    hasTime : BOOLEAN]
    /\ gfpc = "start"
    /\ offset = 0
    /\ page = 0
    /\ all_data = <<>>
    /\ sent = <<>>
    /\ replies = <<>>
    /\ gfres = NoResult
    /\ GeoIdle /\ ProcIdle /\ BatchIdle /\ FetchIdle

\* the call up to the loop: the location check raises, an unauthenticated
\* client returns an empty frame
GetFlights ==
    /\ gfpc = "start"
    /\ IF gfcall.location = "invalid"
       THEN gfpc' = "raised" /\ gfres' = Raise("ValueError")
       ELSE IF ~gfcall.authenticated
       THEN gfpc' = "returned" /\ gfres' = ReturnValue(NoFlights)
       ELSE gfpc' = "loop" /\ gfres' = gfres
    /\ UNCHANGED <<gfcall, offset, page, all_data, sent, replies,
                   geoVars, procVars, batchVars, fetchVars>>

\* one more page: conn.request("GET", "/flights?...&offset=<offset>")
SendPage ==
    /\ gfpc = "loop"
    /\ more_pages(page, gfcall.max_pages)
    /\ sent' = Append(sent, offset)
    /\ gfpc' = "waiting"
    /\ UNCHANGED <<gfcall, offset, page, all_data, replies, gfres,
                   geoVars, procVars, batchVars, fetchVars>>

\* status 200 with n records: the page is appended, the next offset follows
PageData ==
    /\ gfpc = "waiting"
    /\ \E n \in 1..gfcall.limit : all_data' = Append(all_data, n)
    /\ replies' = Append(replies, "data")
    /\ offset' = offset + gfcall.limit
    /\ page' = page + 1
    /\ gfpc' = "loop"
    /\ UNCHANGED <<gfcall, sent, gfres,
                   geoVars, procVars, batchVars, fetchVars>>

\* status 200 with no records, a status other than 200, or an exception
\* of the request or of the decoding: break
PageBreaks ==
    /\ gfpc = "waiting"
    /\ \E r \in {"empty", "status", "exception"} : replies' = Append(replies, r)
    /\ gfpc' = "after_loop"
    /\ UNCHANGED <<gfcall, offset, page, all_data, sent, gfres,
                   geoVars, procVars, batchVars, fetchVars>>

\* after the loop (left by break or by its test): an empty frame when no
\* page was appended, else the concatenation with checktime made from
\* df["time"], which raises KeyError when the records have no 'time'
AfterLoop ==
    /\ \/ gfpc = "after_loop"
       \/ gfpc = "loop" /\ ~more_pages(page, gfcall.max_pages)
    /\ IF all_data = <<>>
       THEN gfpc' = "returned" /\ gfres' = ReturnValue(NoFlights)
       ELSE IF ~gfcall.hasTime
       THEN gfpc' = "raised" /\ gfres' = Raise("KeyError")
       ELSE /\ gfpc' = "returned"
            /\ gfres' = ReturnValue([time |-> TRUE, rows |-> SeqSum(all_data)])
    /\ UNCHANGED <<gfcall, offset, page, all_data, sent, replies,
                   geoVars, procVars, batchVars, fetchVars>>

NextFlights == GetFlights \/ SendPage \/ PageData \/ PageBreaks \/ AfterLoop

SpecFlights == InitFlights /\ [][NextFlights]_vars

\* SpecFlights with the calling thread scheduled. A page request is not
\* required to end: HTTPSConnection(self.base_url) is given no timeout
LiveSpecFlights ==
    /\ SpecFlights
    /\ WF_vars(GetFlights \/ SendPage \/ AfterLoop)

\* ------------------------------------------------------------------------
\* Properties of the builders (checked under SpecGeo)
\* ------------------------------------------------------------------------
BuilderRan == gpc \in {"airLine", "airSegment"}

\* the points of track id that are not the (0,0) sentinel, in time order
CleanedTrack(g, id) ==
    sort_values(SelectSeq(g, LAMBDA r : r.id = id /\ ~(r.x = 0 /\ r.y = 0)),
                <<"time">>)

\* the output rows whose (first) id cell is id, in output order
OutRowsOf(out, id) ==
    IF "id" \notin SeqRange(out.columns) THEN <<>>
    ELSE SelectSeq(out.rows, LAMBDA row : Cells(out, row, "id")[1] = id)

\* the point frame without the rows of track id
WithoutTrack(g, id) == SelectSeq(g, LAMBDA r : r.id # id)

\* C4 (as claimed): for every track with cleaned points p_1..p_n, n >= 2,
\* airSegment emits exactly n-1 segments for it, the i-th with geometry
\* [p_i, p_{i+1}], start time(p_i), end time(p_{i+1}), duration end - start
C4_SegmentsPerTrack ==
    gpc = "airSegment" =>
      \A id \in SeqRange(TrackIds) :
        LET p == CleanedTrack(gdf, id)
            segs == OutRowsOf(gout, id)
        IN  Len(p) >= 2 =>
              /\ gout.err = "none"
              /\ Len(segs) = Len(p) - 1
              /\ \A i \in 1..Len(segs) :
                    /\ Cell(gout, segs[i], "geometry")
                         = << <<p[i].x, p[i].y>>, <<p[i + 1].x, p[i + 1].y>> >>
                    /\ Cell(gout, segs[i], "segment_start_time") = p[i].t
                    /\ Cell(gout, segs[i], "segment_end_time") = p[i + 1].t
                    /\ Cell(gout, segs[i], "segment_duration_ms")
                         = FSub(p[i + 1].t, p[i].t)

\* the two-point track of Scenario A: (lon 0, lat 0, t=1000), (lon 1, lat 0,
\* t=2000), timestamps in units of 1000 ms
ScenarioA(g) ==
    /\ Len(g) = 2
    /\ g[1].id = g[2].id
    /\ g[1].x = 0 /\ g[1].y = 0 /\ g[1].t = Num(1)
    /\ g[2].x = 1 /\ g[2].y = 0 /\ g[2].t = Num(2)

\* C5 (as claimed): the Scenario A track yields exactly one segment, from
\* (0,0) to (1,0), with start 1000, end 2000, duration 1000 and the geodesic
\* distance of the two points
C5_ScenarioAOneSegment ==
    (gpc = "airSegment" /\ ScenarioA(gdf)) =>
        /\ gout.err = "none"
        /\ Len(gout.rows) = 1
        /\ Cell(gout, gout.rows[1], "geometry") = << <<0, 0>>, <<1, 0>> >>
        /\ Cell(gout, gout.rows[1], "segment_start_time") = Num(1)
        /\ Cell(gout, gout.rows[1], "segment_end_time") = Num(2)
        /\ Cell(gout, gout.rows[1], "segment_duration_ms") = Num(1)
        /\ Cell(gout, gout.rows[1], "segment_distance_m") = geod_inv(0, 0, 1, 0)

\* the builder that ran, applied to another frame
SameBuilder(g) == IF gpc = "airLine" THEN airLine(g, hasCk) ELSE airSegment(g, hasCk)

SortedFrame(g) == sort_values(SelectSeq(g, mask), <<"id", "time">>)

\* the rows of the frame the builder's output rows of track id were built from
BuiltFrom(id) == IF OutRowsOf(gout, id) = <<>> THEN <<>> ELSE Group(SortedFrame(gdf), id)

\* C7 (as claimed): whatever the arrival order of the rows, the points a
\* polyline or the segments of a track are built from are in non-decreasing
\* time order, and every emitted segment has segment_duration_ms >= 0
C7_TimeOrdered ==
    (BuilderRan /\ gout.err = "none") =>
      /\ \A id \in SeqRange(TrackIds) :
            \A i \in 1..(Len(BuiltFrom(id)) - 1) :
                FLeq(BuiltFrom(id)[i].t, BuiltFrom(id)[i + 1].t)
      /\ (gpc = "airSegment" /\ gout.rows # <<>>) =>
            \A j \in 1..Len(gout.rows) :
                FGe0(Cell(gout, gout.rows[j], "segment_duration_ms"))

\* the passthrough metadata columns of a point frame
PassthroughCols == {"id", "status", "checktime"}

\* C9: every passthrough cell (id, status, checktime) of the i-th segment of
\* a track is the cell of the segment's start point p_i
C9_MetadataFromStart ==
    (gpc = "airSegment" /\ gout.err = "none") =>
      \A id \in SeqRange(TrackIds) :
        LET p == CleanedTrack(gdf, id)
            segs == OutRowsOf(gout, id)
        IN  \A i \in 1..Len(segs) :
              \A c \in PassthroughCols \cap SeqRange(gout.columns) :
                \A k \in 1..Len(Cells(gout, segs[i], c)) :
                    Cells(gout, segs[i], c)[k] = PointCell(p[i], c)

\* C9 witness: airSegment has emitted two segments of one track whose rows
\* arrived out of time order
C9_Witness ==
    /\ gpc = "airSegment"
    /\ gout.err = "none"
    /\ \E id \in SeqRange(TrackIds) :
          /\ Len(OutRowsOf(gout, id)) = 2
          /\ CleanedTrack(gdf, id) # SelectSeq(gdf, LAMBDA r : r.id = id)

\* C10 (as claimed): every column label occurs exactly once in the output
\* of airSegment, so a segment row has one id cell
C10_ColumnsUnique ==
    (gpc = "airSegment" /\ gout.err = "none") =>
        \A c \in SeqRange(gout.columns) : Len(IndicesOf(gout.columns, c)) = 1

\* ------------------------------------------------------------------------
\* Properties of _process_flight_to_polyline (checked under SpecProc)
\* ------------------------------------------------------------------------
\* C2 (as claimed): called with its default logger, as get_flight_routes
\* calls it, _process_flight_to_polyline never raises; whatever goes wrong,
\* it returns None
C2_ProcessNeverRaises ==
    (ppc = "done" /\ pargs.logger = "None" /\ prow.kind # "other")
        => pres.kind # "raise"

\* the rows of the downloaded CSV that are not the (0,0) sentinel and have a
\* numeric time cell
NotSentinelRows ==
    SelectSeq(pcsv.rows,
              LAMBDA r : /\ ~(r["longitude"] = Num(0) /\ r["latitude"] = Num(0))
                         /\ ~r["time(millisecond)"].nan)

\* C3 (as claimed), on the cleaning path of _process_flight_to_polyline: a
\* row is removed iff both coordinates are zero, so the polyline has one
\* vertex per row that is not (0,0) (rows without a numeric time aside), and
\* is built whenever there are two such rows
C3_RemovedIffBothZero ==
    (/\ ppc = "done"
     /\ pcsv.type = "DataFrame"
     /\ CsvLabels \subseteq pcsv.columns
     /\ pargs.lon_col = "longitude") =>
        IF Len(NotSentinelRows) >= 2
        THEN /\ pres.kind = "value"
             /\ Len(pres.value.geometry) = Len(NotSentinelRows)
        ELSE pres.kind # "value"

\* ------------------------------------------------------------------------
\* Properties of the batch calls (checked under Spec)
\* ------------------------------------------------------------------------
\* the catalog has the columns the batch call needs
CatalogComplete ==
    IF call.fn = "airPoint" THEN {"id", "csvLink", "time"} \subseteq catalog.columns
    ELSE {"id", "csvLink"} \subseteq catalog.columns

\* C1 (as claimed): whichever fetches fail, the batch call (with the
\* default column names) does not raise, and it returns the results of
\* exactly the tracks whose task succeeded (none when all fail)
C1_BatchReturnsSuccesses ==
    (CatalogComplete /\ call.lon_col = "longitude") =>
      /\ bpc # "raised"
      /\ bpc = "returned" =>
            SeqRange(retval.value)
               = {df[k] : k \in {j \in 1..Len(futs) : futs[j].out.kind = "value"}}

\* C8 (as claimed): with filter_ids given, a task is submitted for a catalog
\* row iff the row's id is in filter_ids, and ids that no row has raise
\* nothing
C8_FilterSelectsFetches ==
    (filter_ids.given /\ CatalogComplete) =>
      /\ \A k \in 1..Len(futs) :
            futs[k].st # "none" => catalog.rows[df[k]]["id"] \in filter_ids.ids
      /\ bpc \in {"returned", "raised"} =>
            /\ \A i \in 1..Len(catalog.rows) :
                  catalog.rows[i]["id"] \in filter_ids.ids =>
                      \E k \in 1..Len(futs) : df[k] = i /\ futs[k].st # "none"
            /\ retval.kind = "raise" => retval.exc \notin {"KeyError", "ValueError"}

\* ------------------------------------------------------------------------
\* Further properties of the builders (checked under SpecGeo)
\* ------------------------------------------------------------------------
\* what airLine and airSegment give for the frame the builder ran on
LinesOut == IF gpc = "airLine" THEN gout ELSE airLine(gdf, hasCk)
SegmentsOut == IF gpc = "airSegment" THEN gout ELSE airSegment(gdf, hasCk)

\* the sum of segment_distance_m over the segments of track id
SegmentDistanceSum(out, id) ==
    LET segs == OutRowsOf(out, id)
    IN  SeqSum([i \in 1..Len(segs) |-> Cell(out, segs[i], "segment_distance_m")])

\* C11: on the same input, a track has a row in airLine's output iff it has
\* segments in airSegment's output, it has one row only, and that row's
\* airline_distance_m is the sum of segment_distance_m over the segments
C11_DistanceAdditive ==
    BuilderRan =>
      \A id \in SeqRange(TrackIds) :
        LET line == OutRowsOf(LinesOut, id)
        IN  /\ (line # <<>>) <=> (OutRowsOf(SegmentsOut, id) # <<>>)
            /\ line # <<>> =>
                  /\ Len(line) = 1
                  /\ Cell(LinesOut, line[1], "airline_distance_m")
                        = SegmentDistanceSum(SegmentsOut, id)

\* C11 witness: airSegment has emitted two segments of non-zero length for
\* one track, and airLine reports that track too
C11_Witness ==
    /\ gpc = "airSegment"
    /\ gout.err = "none"
    /\ \E id \in SeqRange(TrackIds) :
          /\ Len(OutRowsOf(gout, id)) = 2
          /\ \A i \in 1..2 :
                Cell(gout, OutRowsOf(gout, id)[i], "segment_distance_m") > 0
          /\ OutRowsOf(LinesOut, id) # <<>>

\* the points of track id the cleaner is to keep: not the (0,0) sentinel and
\* with a numeric time, in time order
TimedTrack(g, id) == SelectSeq(CleanedTrack(g, id), LAMBDA r : ~r.t.nan)

\* C18 (as claimed), for airLine and airSegment: rows whose time is not a
\* number are dropped before sorting and building, so a track with n kept
\* points (n >= 2) gives a polyline of n vertices, or n-1 segments, and a
\* track with fewer gives nothing
C18_NonNumericTimeDropped ==
    (BuilderRan /\ gout.err = "none") =>
      \A id \in SeqRange(TrackIds) :
        LET n == Len(TimedTrack(gdf, id))
            out == OutRowsOf(gout, id)
        IN  IF n < 2 THEN out = <<>>
            ELSE IF gpc = "airLine"
            THEN Len(out) = 1 /\ Len(Cell(gout, out[1], "geometry")) = n
            ELSE Len(out) = n - 1

\* ------------------------------------------------------------------------
\* Further properties of the batch calls (checked under Spec)
\* ------------------------------------------------------------------------
\* the batch call has validated its catalog
Validated == bpc # "idle"

\* no task was handed to the pool
NothingSubmitted == (\A k \in 1..Len(futs) : futs[k].st = "none") /\ requested = {}

\* the catalog rows the call goes on with are none: the catalog is empty or
\* the filter (an empty list is no filter for get_flight_routes) keeps no row
SelectionEmpty ==
    IF filter_ids.given /\ (call.fn = "airPoint" \/ filter_ids.ids # {})
    THEN isin(catalog, filter_ids.ids) = <<>>
    ELSE catalog.rows = <<>>

C13_EmptyReturnsEmpty ==
    (/\ Validated
     /\ CatalogComplete
     /\ (catalog.rows = <<>>
            \/ (filter_ids.given /\ isin(catalog, filter_ids.ids) = <<>>))) =>
        (bpc = "returned" /\ retval = ReturnValue(<<>>) /\ NothingSubmitted)

\* C14: at every moment of a batch call at most max_workers fetches are in
\* flight, and they are fetches of the chunk being processed
C14_InFlightBounded ==
    /\ Cardinality(Running) =< max_workers
    /\ Running \subseteq Chunk

\* C14 witness: max_workers fetches are in flight while another submitted
\* fetch waits for a thread
C14_Witness ==
    /\ Cardinality(Running) = max_workers
    /\ \E k \in 1..Len(futs) : futs[k].st = "queued"

\* the csvLink cell of the catalog row behind position k of df is None or
\* not a str, or a str that starts with neither http:// nor https://
NoHttpUrl(k) ==
    LET url == dict_get(catalog.rows[df[k]], "csvLink", PyNone)
    IN  url.type # "str" \/ (url.scheme # "http://" /\ url.scheme # "https://")

\* C16: for a track whose URL is absent, not a string or not an http(s)
\* URL no download is ever attempted, and its task ends without a result
C16_InvalidUrlNoRequest ==
    \A k \in 1..Len(futs) :
        NoHttpUrl(k) =>
            /\ k \notin requested
            /\ futs[k].st = "done" => futs[k].out.kind # "value"

\* C16 witness: the task of a track without a usable URL is done while a
\* download was attempted for another track of the same batch
C16_Witness ==
    /\ \E k \in 1..Len(futs) : NoHttpUrl(k) /\ futs[k].st = "done"
    /\ requested # {}

\* C19 (as claimed): when every flight's task succeeds, get_flight_routes
\* returns the flights' rows in catalog order, whatever the order in which
\* the tasks completed
C19_CatalogOrder ==
    (/\ call.fn = "get_flight_routes"
     /\ bpc = "returned"
     /\ futs # <<>>
     /\ \A k \in 1..Len(futs) : futs[k].out.kind = "value") =>
        retval.value = df

\* the parameters of _process_flight_to_polyline in the tasks submitted
SubmittedArgs == submit_args(call.lon_col, call.lat_col, call.time_col)

\* C20 (as claimed): get_flight_routes submits one task per row of the
\* catalog, and in that task the processor's lon_col, lat_col and time_col
\* are get_flight_routes' lon_col, lat_col and time_col, its URL column the
\* default csvLink
C20_ColumnArgsBound ==
    (call.fn = "get_flight_routes"
       /\ \E k \in 1..Len(futs) : futs[k].st # "none") =>
        /\ Len(futs) = Len(df)
        /\ SubmittedArgs.lon_col = call.lon_col
        /\ SubmittedArgs.lat_col = call.lat_col
        /\ SubmittedArgs.time_col = call.time_col
        /\ SubmittedArgs.url_col = "csvLink"

\* ------------------------------------------------------------------------
\* Further properties of _process_flight_to_polyline (checked under SpecProc)
\* ------------------------------------------------------------------------
\* C17 (as claimed): when the downloaded CSV lacks the longitude, latitude
\* or time column, _process_flight_to_polyline returns None (no geometry for
\* the track) and raises nothing
C17_MissingColumnNoRaise ==
    (/\ ppc = "done"
     /\ prow.kind # "other"
     /\ pcsv.type = "DataFrame"
     /\ ~(CsvLabels \subseteq pcsv.columns)) =>
        pres = ReturnNone

\* ------------------------------------------------------------------------
\* Properties of the fetchers (checked under SpecFetch)
\* ------------------------------------------------------------------------
\* the download attempts made that failed
FailedAttempts == SelectSeq(flog, LAMBDA e : e # "ok")

\* C15: for one track the fetcher makes at most max_retries download
\* attempts (fetch_csv: one), sleeps 0.5 * 2^a seconds after failed attempt
\* a when another attempt follows, makes no attempt after a success, and
\* returns None, never raising, when its last attempt has failed
C15_BoundedRetriesBackoff ==
    /\ Len(flog) =< (IF fcall.fn = "AirdataCSV" THEN fcall.max_retries ELSE 1)
    /\ Len(flog) =< retries
    /\ \A i \in 1..Len(sleeps) : sleeps[i] = Pow2(i - 1)
    /\ fpc = "attempt" => Len(sleeps) = Len(flog) /\ FailedAttempts = flog
    /\ fpc = "backoff" => Len(sleeps) = Len(flog) /\ FailedAttempts = flog
    /\ \A i \in 1..Len(flog) : flog[i] = "ok" => (i = Len(flog) /\ fpc = "done")
    /\ fpc = "done" =>
          /\ fres.kind # "raise"
          /\ fres.kind = "value" <=> (flog # <<>> /\ flog[Len(flog)] = "ok")
          /\ fres.kind = "None" <=> FailedAttempts = flog
          /\ Len(sleeps) = Len(FailedAttempts)
                              - (IF FailedAttempts = flog /\ flog # <<>> THEN 1 ELSE 0)

\* C15 witness: AirdataCSV with max_retries = 3 has failed three times,
\* slept 0.5 s and 1 s in between, and returned None
C15_Witness ==
    /\ fcall.fn = "AirdataCSV"
    /\ fcall.max_retries = 3
    /\ fpc = "done"
    /\ Len(flog) = 3
    /\ sleeps = <<1, 2>>
    /\ fres = ReturnNone

\* ------------------------------------------------------------------------
\* Properties of the batch calls, third part (checked under Spec)
\* ------------------------------------------------------------------------
\* C28 (as claimed): with filter_ids = [] the batch call, airPoint and
\* get_flight_routes alike, selects no track: it submits no fetch and
\* returns an empty result
C28_EmptyFilterSelectsNothing ==
    (Validated /\ CatalogComplete /\ filter_ids = Filter({})) =>
        /\ df = <<>>
        /\ NothingSubmitted
        /\ bpc = "returned"
        /\ retval = ReturnValue(<<>>)

\* ------------------------------------------------------------------------
\* Properties of the builders, third part (checked under SpecGeo)
\* ------------------------------------------------------------------------
\* C29 (as claimed): on a frame with the id, time(millisecond) and geometry
\* columns, with or without a checktime column, airLine and airSegment raise
\* nothing and every track with at least 2 non-sentinel points has output rows
C29_NoFurtherColumnNeeded ==
    BuilderRan =>
        /\ gout.err = "none"
        /\ \A id \in SeqRange(TrackIds) :
              Len(CleanedTrack(gdf, id)) >= 2 => OutRowsOf(gout, id) # <<>>

\* the tasks that ended with an exception
RaisedTasks == {k \in 1..Len(futs) : futs[k].out.kind = "raise"}

\* C27: when future.result() is taken of a task that raised, the batch call
\* stops collecting and raises that exception; it never returns after that,
\* so the results collected before are not returned, and a call that has
\* returned has seen no task raise
C27_WorkerRaiseAborts ==
    /\ (\E i \in 1..Len(consumed) : consumed[i] \in RaisedTasks) =>
          /\ bpc \in {"unwinding", "raised"}
          /\ consumed[Len(consumed)] \in RaisedTasks
          /\ retval = futs[consumed[Len(consumed)]].out
          /\ \A i \in 1..(Len(consumed) - 1) : consumed[i] \notin RaisedTasks
    /\ bpc = "returned" => RaisedTasks = {}

\* C27 witness: the batch call has raised the exception of a task after it
\* had collected the result of another task
C27_Witness ==
    /\ bpc = "raised"
    /\ retval.kind = "raise"
    /\ retval.exc = "AttributeError"
    /\ results # <<>>

\* the place of future k in the order of completion
CompletedAt(k) == CHOOSE i \in 1..Len(completed) : completed[i] = k

\* the places in consumed of the futures of the chunk being processed
ConsumedOfChunk == {i \in 1..Len(consumed) : consumed[i] \in Chunk}

\* the catalog rows of the consumed futures that gave a result, in the order
\* they were consumed
AppendedByLoop ==
    LET got == SelectSeq(consumed, LAMBDA k : futs[k].out.kind = "value")
    IN  [i \in 1..Len(got) |-> df[got[i]]]

\* every future is consumed at most once and only when done, and the output
\* list is what the driving thread's loop appended, one entry per consumed
\* result, in the order consumed
CollectedOnceByLoop ==
    /\ \A i, j \in 1..Len(consumed) : consumed[i] = consumed[j] => i = j
    /\ \A i \in 1..Len(consumed) : futs[consumed[i]].st = "done"
    /\ results = AppendedByLoop

\* C23 (as claimed): the output list is written by the driving thread's
\* loop only, each completed fetch's result at most once, and the fetches
\* are consumed in the order in which they completed
C23_CompletionOrder ==
    /\ CollectedOnceByLoop
    /\ \A i, j \in ConsumedOfChunk :
          i < j => CompletedAt(consumed[i]) < CompletedAt(consumed[j])

\* C23 (amended): the output list is written by the driving thread's loop
\* only, each completed fetch's result at most once, in the order
\* as_completed yields the futures: the fetches that were complete when the
\* loop over the chunk began come first, in no particular order, and the
\* fetches that complete later follow in the order in which they complete
C23_AsCompletedOrder ==
    /\ CollectedOnceByLoop
    /\ \A i, j \in ConsumedOfChunk :
          i < j =>
            /\ consumed[j] \in finished0 => consumed[i] \in finished0
            /\ (consumed[i] \notin finished0 /\ consumed[j] \notin finished0)
                  => CompletedAt(consumed[i]) < CompletedAt(consumed[j])

\* C23 witness: two results were appended, the later-submitted fetch first,
\* both fetches having completed after the loop began
C23_Witness ==
    /\ Len(results) >= 2
    /\ \E i, j \in ConsumedOfChunk :
          /\ i < j
          /\ consumed[i] > consumed[j]
          /\ consumed[i] \notin finished0
          /\ consumed[j] \notin finished0

\* the number (from 0) of the chunk of chunk_size consecutive rows that
\* position k of df falls in; 0 when df has chunk_size rows or fewer
ChunkOf(k) == IF Len(df) > chunk_size THEN (k - 1) \div chunk_size ELSE 0

\* C24: in airPoint no fetch of a chunk is submitted before every fetch of
\* every earlier chunk has completed and been collected, and a catalog of
\* chunk_size rows or fewer is one single batch
C24_ChunksSequential ==
    call.fn = "airPoint" =>
      /\ \A j, k \in 1..Len(futs) :
            (ChunkOf(j) < ChunkOf(k) /\ futs[k].st # "none") =>
                (futs[j].st = "done" /\ j \in SeqRange(consumed))
      /\ (Len(df) =< chunk_size /\ bpc \in {"submitting", "collecting"}) =>
            Chunk = 1..Len(df)

\* C24 witness: airPoint has submitted a fetch of the second chunk of a
\* catalog with more than chunk_size rows
C24_Witness ==
    /\ call.fn = "airPoint"
    /\ Len(df) > chunk_size
    /\ \E k \in 1..Len(futs) : ChunkOf(k) = 1 /\ futs[k].st # "none"

\* the values of start_idx airPoint goes through: range(0, total_rows,
\* chunk_size) with chunks, [0] without
ChunkStarts ==
    IF use_chunks(df)
    THEN {s \in 0..(Len(df) - 1) : s % chunk_size = 0}
    ELSE {0}

\* the positions of df in the chunk that starts at s
ChunkAt(s) == chunk_df(df, s, use_chunks(df))

\* C25: in airPoint the chunks are runs of consecutive rows, at most
\* chunk_size long, pairwise disjoint and together all of the rows left
\* after filtering; a fetch is submitted only with its chunk, and when the
\* call returns every row's fetch was submitted and consumed exactly once
C25_ChunksPartitionRows ==
    (call.fn = "airPoint" /\ df # <<>>) =>
      /\ start_idx \in ChunkStarts
      /\ \A s \in ChunkStarts :
            /\ ChunkAt(s) # {}
            /\ Cardinality(ChunkAt(s)) =< chunk_size
            /\ \A a, b \in ChunkAt(s) : \A m \in a..b : m \in ChunkAt(s)
            /\ \A t \in ChunkStarts : s # t => ChunkAt(s) \cap ChunkAt(t) = {}
      /\ UNION {ChunkAt(s) : s \in ChunkStarts} = 1..Len(df)
      /\ \A k \in 1..Len(futs) :
            futs[k].st # "none" => \E s \in ChunkStarts : s =< start_idx /\ k \in ChunkAt(s)
      /\ bpc = "returned" =>
            \A k \in 1..Len(df) :
                /\ futs[k].st = "done"
                /\ Cardinality({i \in 1..Len(consumed) : consumed[i] = k}) = 1

\* C25 witness: airPoint has returned from a catalog of chunk_size + 1 rows,
\* whose last chunk is a single row
C25_Witness ==
    /\ call.fn = "airPoint"
    /\ bpc = "returned"
    /\ Len(df) = chunk_size + 1
    /\ Len(consumed) = Len(df)

\* ------------------------------------------------------------------------
\* Properties of the distance computation (checked under SpecDist)
\* ------------------------------------------------------------------------
\* the track's points in time order
TrackInOrder == sort_values(gdf, <<"time">>)

RECURSIVE GoodEdgeSum(_)
\* the sum of the distances of the edges of a point sequence, an edge for
\* which the geodesic computation fails counted as zero
GoodEdgeSum(p) ==
    IF Len(p) < 2 THEN 0
    ELSE (IF BadCoord \in {p[1].y, p[2].y} THEN 0
          ELSE geod_inv(p[1].x, p[1].y, p[2].x, p[2].y))
         + GoodEdgeSum(Tail(p))

\* C21 (as claimed): for a track of n >= 2 points, whether or not the
\* geodesic computation fails for some edge, airLine and
\* _process_flight_to_polyline produce the polyline of all n points, and
\* its total distance is the sum over the edges that did not fail
C21_FailedEdgeSkipped ==
    Len(gdf) >= 2 =>
      /\ gpc = "airLine" =>
            /\ gout.err = "none"
            /\ Len(gout.rows) = 1
            /\ Cell(gout, gout.rows[1], "geometry") = LineString(TrackInOrder)
            /\ Cell(gout, gout.rows[1], "airline_distance_m")
                  = GoodEdgeSum(TrackInOrder)
      /\ gpc = "polyline" =>
            /\ pres.kind = "value"
            /\ pres.value.geometry = LineString(TrackInOrder)
            /\ pres.value.flight_distance_m = GoodEdgeSum(TrackInOrder)

\* ------------------------------------------------------------------------
\* Properties of the batch calls, fourth part (checked under Spec)
\* ------------------------------------------------------------------------
\* the task of position k has cleaned its track's points and built a
\* geometry from them
BuiltInWorker(k) ==
    futs[k].out.kind = "value" /\ "geometry" \in DOMAIN futs[k].out.value

\* C22 (as claimed): no worker cleans points or builds geometry; a geometry
\* exists only when every fetch of the active chunk/batch has completed
C22_GeometryAfterFetches ==
    \A k \in 1..Len(futs) :
        BuiltInWorker(k) => \A j \in Chunk : futs[j].st = "done"

\* C22 (amended): the tasks of airPoint only fetch: none of them cleans or
\* builds geometry, which is left to the caller after the batch call. The
\* tasks of get_flight_routes clean and build the polyline of their own
\* track inside the worker, concurrently with the other fetches, each from
\* its own catalog row and CSV only; the driving thread only collects
C22_GeometryPerWorker ==
    /\ call.fn = "airPoint" => \A k \in 1..Len(futs) : ~BuiltInWorker(k)
    /\ call.fn = "get_flight_routes" =>
          \A k \in 1..Len(futs) :
              futs[k].out.kind = "value" =>
                  /\ BuiltInWorker(k)
                  /\ futs[k].st = "done"
                  /\ futs[k].out.value.meta[SubmittedArgs.id_col]
                        = dict_get(catalog.rows[df[k]], SubmittedArgs.id_col, UnknownId)
                  /\ futs[k].out.value.geometry
                        = [i \in 1..Len(GoodCsv.rows) |->
                              << GoodCsv.rows[i]["longitude"].v,
                                 GoodCsv.rows[i]["latitude"].v >>]

\* C22 witness: a task of get_flight_routes has built its track's polyline
\* while the fetch of another track is still running
C22_Witness ==
    /\ call.fn = "get_flight_routes"
    /\ \E k \in 1..Len(futs) : BuiltInWorker(k)
    /\ \E j \in 1..Len(futs) : futs[j].st = "running"

\* ------------------------------------------------------------------------
\* Properties of the batch calls under LiveSpec
\* ------------------------------------------------------------------------
\* the tasks that ended with the failure sentinel
FailedTasks == {k \in 1..Len(futs) : futs[k].out.kind = "None"}

\* the batch call has returned, having consumed the outcome of every
\* submitted fetch exactly once; collected results and discarded failures
\* add up to the rows submitted
ReturnedAllConsumed ==
    /\ bpc = "returned"
    /\ Len(futs) = Len(df)
    /\ \A k \in 1..Len(futs) :
          /\ futs[k].st = "done"
          /\ Cardinality({i \in 1..Len(consumed) : consumed[i] = k}) = 1
    /\ Len(consumed) = Len(futs)
    /\ retval = ReturnValue(results)
    /\ Len(results) + Cardinality(FailedTasks) = Len(df)

FlightsTerminated == gfpc \in {"returned", "raised"}

\* at most max_pages page requests, at offsets 0, limit, 2*limit, ... in
\* that order; none after a page that is empty, not 200 or raised; none by
\* an unauthenticated client
PageRequestsBounded ==
    gfpc # "idle" =>
      /\ Len(sent) <= gfcall.max_pages
      /\ \A i \in 1..Len(sent) : sent[i] = (i - 1) * gfcall.limit
      /\ Len(replies) \in {Len(sent), Len(sent) - 1}
      /\ \A i \in 1..Len(replies) : replies[i] # "data" => i = Len(sent)
      /\ ~gfcall.authenticated => sent = <<>>

\* C30 (as claimed): the page requests are bounded and ordered as above,
\* and the call always terminates
C30_PagesBoundedAlwaysTerminates ==
    []PageRequestsBounded /\ <>FlightsTerminated

\* C30: the page requests are bounded and ordered as above, and the call
\* terminates unless a page request never ends
C30_PagesBoundedTerminates ==
    /\ []PageRequestsBounded
    /\ ([]<>(gfpc # "waiting")) => <>FlightsTerminated

\* C30 witness: the call has returned after a second page request, at
\* offset limit, that came back empty
C30_Witness ==
    /\ gfpc = "returned"
    /\ Len(sent) = 2
    /\ sent[2] = gfcall.limit
    /\ replies[2] = "empty"
    /\ gfcall.max_pages > 2

====
